---- MODULE Spec2Model ----
(***************************************************************************)
(* Model of the authenticated HTTP client of src/lib/http.ts together with *)
(* the token helpers of src/lib/utils/auth.ts: the axios request and       *)
(* response interceptors, the module-level refresh flag and subscriber     *)
(* list, refreshToken(), and the localStorage record they read and write.  *)
(*                                                                         *)
(* Scheduling is the JavaScript event loop: a handler runs to its next     *)
(* await without interleaving, so every action below is one such run.      *)
(*                                                                         *)
(* The error handler of src/unnamed/part_001 (lib/utils/error-handler) is  *)
(* a set of pure functions; ClassifySpec draws a raw error and applies     *)
(* them, and runs the catch of AuthContext.verifyToken on the rejection    *)
(* the pipeline makes of it.  LiveSpec is Spec with the event loop's and   *)
(* the transport's progress assumed.                                       *)
(***************************************************************************)
EXTENDS Integers, Sequences, FiniteSets, TLC

\* ------------------------------------------------------------------ bounds
MaxReq == 2          \* logical requests issued through axiosInstance
MaxTick == 1         \* clock steps of TickMs
MaxIssued == 3       \* access tokens the backend issues during a run

\* ------------------------------------------------------- program constants
REFRESH_THRESHOLD == 300000     \* 5 * 60 * 1000 ms
TickMs == REFRESH_THRESHOLD       \* granularity of the modelled clock, ms
UNAUTHORIZED == 401

Reqs == 1..MaxReq

\* An access token is the JWT itself: its identity and its embedded exp claim
\* (seconds; 0 stands for a token whose payload has no decodable exp).
NoToken == [id |-> 0, exp |-> 0]
Lifetimes == {120, 600}         \* seconds of validity the backend may grant

\* window.location.pathname values, as sequences of characters
Paths == {<<"/">>, <<"/", "a">>}

\* Transport outcomes of a dispatched request: HTTP status (0: no response)
\* and the axios error code.
Responses ==
  { [status |-> 200, code |-> ""],
    [status |-> 401, code |-> ""],
    [status |-> 403, code |-> ""],
    [status |-> 500, code |-> ""],
    [status |-> 0, code |-> "ERR_NETWORK"],
    [status |-> 0, code |-> "ECONNABORTED"] }

VARIABLES
  storage,             \* localStorage: auth_token, refresh_token, token_expiry, user_data
  isRefreshing,        \* http.ts:20
  refreshSubscribers,  \* http.ts:21, callbacks in push order
  req,                 \* per request: position in the pipeline and its config
  now,                 \* Date.now()
  pathname,            \* window.location.pathname
  href,                \* last value assigned to window.location.href (<<>>: none)
  issued,              \* access tokens issued by the backend so far
  signals,             \* runs of redirectToLogin since credentials were last stored
  raw,                 \* the error value handed to the error handler
  out                  \* the error handler function last applied and its result

\* state of the request pipeline
pipeline == <<storage, isRefreshing, refreshSubscribers, req, now, pathname, href,
              issued, signals>>

\* state of the error handler's caller
engine == <<raw, out>>

vars == <<storage, isRefreshing, refreshSubscribers, req, now, pathname, href,
          issued, signals, raw, out>>

\* ------------------------------------------------------------ auth.ts

\* parseJwt + getTokenExpiryFromJwt: exp seconds to ms, null (0) if absent
getTokenExpiryFromJwt(token) ==
  IF token.exp = 0 THEN 0 ELSE token.exp * 1000

getAccessToken == storage.auth_token
getRefreshToken == storage.refresh_token
getTokenExpiry == storage.token_expiry

\* variant: the threshold instant itself does not count as expiring soon
isTokenExpiringSoonStrict ==
  IF getTokenExpiry = 0 THEN FALSE
  ELSE now > getTokenExpiry - REFRESH_THRESHOLD

isTokenExpiringSoon ==
  IF getTokenExpiry = 0 THEN FALSE
  ELSE now >= getTokenExpiry - REFRESH_THRESHOLD

isTokenExpired ==
  IF getTokenExpiry = 0 THEN FALSE
  ELSE now >= getTokenExpiry

\* storeAuthData(data): every field is written only if present in data
storeAuthData(st, data) ==
  [ auth_token    |-> data.accessToken,
    refresh_token |-> IF data.refreshToken # 0 THEN data.refreshToken
                      ELSE st.refresh_token,
    token_expiry  |-> IF getTokenExpiryFromJwt(data.accessToken) # 0
                      THEN getTokenExpiryFromJwt(data.accessToken)
                      ELSE st.token_expiry,
    user_data     |-> IF data.user # 0 THEN data.user ELSE st.user_data ]

\* clearAuthData(): the four keys removed
ClearedStorage ==
  [auth_token |-> NoToken, refresh_token |-> 0, token_expiry |-> 0, user_data |-> 0]

\* encodeURIComponent on a path: "/" is escaped, letters are kept
encodeURIComponent(p) ==
  [i \in 1..Len(p) |-> IF p[i] = "/" THEN "%2F" ELSE p[i]]

\* the URL redirectToLogin navigates to
LoginUrl(returnUrl) ==
  IF returnUrl # <<>>
  THEN <<"/auth/login?returnUrl=">> \o encodeURIComponent(returnUrl)
  ELSE <<"/auth/login">>

\* ------------------------------------------------------ error-handler

\* Strings are sequences of words; <<>> is the empty or the absent string.
Includes(s, w) == \E i \in 1..Len(s) : s[i] = w

\* An error value with every property absent.  kind tells null/undefined, a
\* bare string (its content in text), an object, and an AppError instance;
\* response, data and request tell whether the property is present.
BlankError ==
  [ kind |-> "object", text |-> <<>>,
    response |-> FALSE, status |-> 0,
    data |-> FALSE, dataMessage |-> <<>>, dataErrors |-> FALSE, dataError |-> <<>>,
    code |-> "", message |-> <<>>, request |-> FALSE,
    statusCode |-> 0, isOperational |-> FALSE ]

\* response statuses: 418 and 599 have no errorMessages entry
Statuses == {400, 401, 403, 404, 409, 418, 422, 500, 503, 599}

\* response.data: absent, {}, {message}, {errors}, {message, errors}, {error}
NoBody == [data |-> FALSE, dataMessage |-> <<>>, dataErrors |-> FALSE, dataError |-> <<>>]
Bodies ==
  { NoBody,
    [NoBody EXCEPT !.data = TRUE],
    [NoBody EXCEPT !.data = TRUE, !.dataMessage = <<"Email", "exists">>],
    [NoBody EXCEPT !.data = TRUE, !.dataErrors = TRUE],
    [NoBody EXCEPT !.data = TRUE, !.dataMessage = <<"Email", "exists">>,
                   !.dataErrors = TRUE],
    [NoBody EXCEPT !.data = TRUE, !.dataError = <<"Bad", "input">>] }

NoResponse == [response |-> FALSE, status |-> 0, body |-> NoBody]
HttpResponses ==
  {[response |-> TRUE, status |-> s, body |-> b] : s \in Statuses, b \in Bodies}

Codes == {"", "ERR_NETWORK", "ECONNABORTED", "ERR_BAD_REQUEST"}
Messages ==
  { <<>>, <<"Network Error">>, <<"timeout", "of", "30000ms", "exceeded">>,
    <<"Request", "failed">> }

ErrorObjects ==
  { [BlankError EXCEPT !.response = rs.response, !.status = rs.status,
                       !.data = rs.body.data, !.dataMessage = rs.body.dataMessage,
                       !.dataErrors = rs.body.dataErrors,
                       !.dataError = rs.body.dataError,
                       !.code = c, !.message = m, !.request = q] :
      rs \in HttpResponses \cup {NoResponse}, c \in Codes, m \in Messages,
      q \in BOOLEAN }

\* new AppError(message, statusCode, isOperational)
AppError(message, statusCode, isOperational) ==
  [BlankError EXCEPT !.kind = "AppError", !.message = message,
                     !.statusCode = statusCode, !.isOperational = isOperational]

\* the TypeError a property read on null or undefined throws
TypeError == [BlankError EXCEPT !.kind = "TypeError"]

\* the values callers hand to the error handler
RawErrors ==
  ErrorObjects
    \cup { [BlankError EXCEPT !.kind = "null"],
           [BlankError EXCEPT !.kind = "string"],
           [BlankError EXCEPT !.kind = "string", !.text = <<"Oops">>],
           AppError(<<"Unauthorized">>, 401, TRUE),
           AppError(<<"Network Error", "-", "No", "response", "from", "server">>,
                    0, FALSE) }

\* the keys of errorMessages that are status codes
CatalogStatuses == {400, 401, 403, 404, 409, 422, 500, 502, 503, 504}

\* a resolved message: where it came from and, for a catalog entry, which
Message(src, status, key, lang, text) ==
  [src |-> src, status |-> status, key |-> key, lang |-> lang, text |-> text]

getApiErrorMessage(error, lang) ==
  IF error.kind = "string" THEN Message("input", 0, "", "", error.text)
  ELSE IF error.response /\ error.dataMessage # <<>>
    THEN Message("server", 0, "", "", error.dataMessage)
  ELSE IF error.response /\ error.status \in CatalogStatuses
    THEN Message("catalog", error.status, "", lang, <<>>)
  ELSE IF error.code = "ERR_NETWORK" \/ Includes(error.message, "Network Error")
    THEN Message("catalog", 0, "network", lang, <<>>)
  ELSE IF error.code = "ECONNABORTED" \/ Includes(error.message, "timeout")
    THEN Message("catalog", 0, "timeout", lang, <<>>)
  ELSE IF error.request
    THEN Message("catalog", 0, "network", lang, <<>>)
  ELSE IF error.message # <<>>
    THEN Message("error", 0, "", "", error.message)
  ELSE Message("catalog", 0, "unknown", lang, <<>>)

\* getValidationErrors(error) !== null
getValidationErrors(error) == error.response /\ error.dataErrors

\* variant: the server message is tested before the validation statuses
getErrorCategoryMessageFirst(error) ==
  IF error.response /\ error.status = 401 THEN "auth"
  ELSE IF error.response /\ error.status = 403 THEN "permission"
  ELSE IF error.response /\ error.dataMessage # <<>> THEN "business"
  ELSE IF error.response /\ (error.status = 422 \/ error.dataErrors) THEN "validation"
  ELSE IF error.response /\ error.status = 404 THEN "notfound"
  ELSE IF error.response /\ error.status = 409 THEN "conflict"
  ELSE IF error.response /\ error.status >= 500 THEN "server"
  ELSE IF \/ error.code = "ERR_NETWORK"
          \/ Includes(error.message, "Network Error")
          \/ ~error.response
    THEN "network"
  ELSE IF error.code = "ECONNABORTED" \/ Includes(error.message, "timeout")
    THEN "timeout"
  ELSE "unknown"

getErrorCategory(error) ==
  IF error.response /\ error.status = 401 THEN "auth"
  ELSE IF error.response /\ error.status = 403 THEN "permission"
  ELSE IF error.response /\ (error.status = 422 \/ error.dataErrors) THEN "validation"
  ELSE IF error.response /\ error.status = 404 THEN "notfound"
  ELSE IF error.response /\ error.status = 409 THEN "conflict"
  ELSE IF error.response /\ error.status >= 500 THEN "server"
  ELSE IF \/ error.code = "ERR_NETWORK"
          \/ Includes(error.message, "Network Error")
          \/ ~error.response
    THEN "network"
  ELSE IF error.code = "ECONNABORTED" \/ Includes(error.message, "timeout")
    THEN "timeout"
  ELSE IF error.response /\ error.dataMessage # <<>> THEN "business"
  ELSE "unknown"

\* variant: the flag follows the category instead of the server message
isBusinessErrorByCategory(error) == getErrorCategory(error) = "business"

\* isBusinessError(error): !!error?.response?.data?.message

isBusinessError(error) == error.response /\ error.dataMessage # <<>>

\* variant: a server message makes the error a business error whatever its
\* category
getErrorTypeMessageFirst(error) ==
  IF error.response /\ error.dataMessage # <<>> THEN "business"
  ELSE IF getErrorCategory(error) \in {"network", "timeout", "server"} THEN "retryable"
  ELSE IF getErrorCategory(error) \in
            {"auth", "permission", "validation", "notfound", "conflict"}
    THEN "non-retryable"
  ELSE "system"

getErrorType(error) ==
  IF getErrorCategory(error) \in {"network", "timeout", "server"} THEN "retryable"
  ELSE IF getErrorCategory(error) \in
            {"auth", "permission", "validation", "notfound", "conflict"}
    THEN "non-retryable"
  ELSE IF error.response /\ error.dataMessage # <<>> THEN "business"
  ELSE "system"

formatError(error, lang) ==
  [ message |-> getApiErrorMessage(error, lang),
    validationErrors |-> getValidationErrors(error),
    status |-> IF error.response THEN error.status ELSE 0,
    code |-> error.code,
    category |-> getErrorCategory(error),
    type |-> getErrorType(error),
    isAuthError |-> getErrorCategory(error) = "auth",
    isPermissionError |-> getErrorCategory(error) = "permission",
    isValidationError |-> getErrorCategory(error) = "validation",
    isRetryable |-> getErrorType(error) = "retryable",
    isBusinessError |-> isBusinessError(error) ]

\* data?.message || data?.error || 'An error occurred'
ResponseMessage(error) ==
  IF error.dataMessage # <<>> THEN error.dataMessage
  ELSE IF error.dataError # <<>> THEN error.dataError
  ELSE <<"An", "error", "occurred">>

\* parseApiError(error): the AppError returned, or the TypeError thrown when
\* error.response is read on null or undefined
parseApiError(error) ==
  IF error.kind = "AppError" THEN error
  ELSE IF error.kind = "null" THEN TypeError
  ELSE IF error.response
    THEN AppError(ResponseMessage(error),
                  IF error.status \in {400, 401, 403, 404, 409, 422}
                    THEN error.status ELSE 500,
                  TRUE)
  ELSE IF error.request /\ ~error.response
    THEN AppError(<<"Network Error", "-", "No", "response", "from", "server">>,
                  0, FALSE)
  ELSE AppError(IF error.message # <<>> THEN error.message
                ELSE <<"An", "unexpected", "error", "occurred">>, 500, FALSE)

\* ------------------------------------------------------------ http.ts

\* A request config before axiosInstance(config) is first called
NewRequest ==
  [ pc     |-> "idle",      \* position of the request in the pipeline
    retry  |-> FALSE,       \* originalRequest._retry
    auth   |-> NoToken,     \* config.headers.Authorization (bearer token)
    issues |-> 0,           \* calls axiosInstance(config) made for it
    sends  |-> 0,           \* times it reached the transport
    sent   |-> NoToken,     \* bearer it carried when it last reached the transport
    rcall  |-> "none",      \* its outstanding refreshToken() call, if any
    error  |-> -1,          \* statusCode of the AppError its error handler holds
    rel    |-> NoToken ]    \* token its retry callback got, until it is next sent

RefreshPcs == {"refreshPre", "refreshResp"}

\* requests whose refreshToken() call has not returned to the interceptor
Owners == {r \in Reqs : req[r].pc \in RefreshPcs}

\* POST /auth/refresh-token calls not yet answered
OutstandingExchanges == {r \in Owners : req[r].rcall = "exchange"}

\* A promise continuation is queued: such steps run before the event loop
\* delivers the next network response, timer or user event.
MicrotaskPending ==
  \E r \in Reqs : \/ req[r].pc = "interceptor"
                  \/ req[r].pc \in RefreshPcs /\ req[r].rcall = "null"

\* Microtasks run in the order they were queued.  A request interceptor is
\* queued by a call of axiosInstance; a call is made by application code on
\* an event of its own, or in the synchronous run whose earlier calls'
\* interceptors are still queued.
InterceptorPending == \E r \in Reqs : req[r].pc = "interceptor"

CallPossible ==
  \A q \in Reqs : /\ req[q].pc = "interceptor" => req[q].issues = 1
                  /\ ~(req[q].pc \in RefreshPcs /\ req[q].rcall = "null")

\* the config handed on by the request interceptor reaches the transport
Dispatch(q) ==
  [q EXCEPT !.pc = "inflight", !.sends = @ + 1, !.sent = q.auth, !.rel = NoToken]

\* subscribeTokenRefresh(callback)
subscribeTokenRefresh(r, kind) ==
  Append(refreshSubscribers, [req |-> r, kind |-> kind])

\* the requests whose callback of the given kind is in the list
Waiting(kind) ==
  {refreshSubscribers[i].req : i \in {j \in 1..Len(refreshSubscribers) :
                                       refreshSubscribers[j].kind = kind}}

\* variant: the callback resolves the config without setting the header
ResumeWaitingRequestStaleHeader(q, token) ==
  Dispatch([q EXCEPT !.auth = getAccessToken])

\* the callback the request interceptor subscribes (lines 106-109)
ResumeWaitingRequest(q, token) ==
  Dispatch([q EXCEPT !.auth = token])

\* the callback the response interceptor subscribes (lines 138-141)
RetryWaitingRequest(q, token) ==
  [q EXCEPT !.auth = token, !.pc = "interceptor", !.issues = @ + 1,
            !.error = -1, !.rel = token]

\* onTokenRefreshed(token): every callback runs with the token
onTokenRefreshed(rq, token) ==
  [r \in Reqs |->
     IF r \in Waiting("pre") THEN ResumeWaitingRequest(rq[r], token)
     ELSE IF r \in Waiting("retry") THEN RetryWaitingRequest(rq[r], token)
     ELSE rq[r]]

\* refreshToken() up to its await: no refresh token, no call
refreshTokenCall ==
  IF getRefreshToken = 0 THEN "null" ELSE "exchange"

\* variant: the flag is not consulted before a proactive refresh
ProactiveRefreshUnguarded == isTokenExpiringSoon

\* request interceptor, line 84
ProactiveRefreshWarranted == isTokenExpiringSoon /\ ~isRefreshing

\* variant: the response interceptor does not look at the flag
NeverJoinOngoingRefresh == FALSE

\* response interceptor, line 135
JoinOngoingRefresh == isRefreshing

\* axiosInstance(config): the request interceptor is queued
Send(r) ==
  /\ UNCHANGED engine
  /\ req[r].pc = "idle"
  /\ \A q \in Reqs : q < r => req[q].pc # "idle"    \* requests are numbered as issued
  /\ CallPossible
  /\ req' = [req EXCEPT ![r].pc = "interceptor", ![r].issues = 1]
  /\ UNCHANGED <<storage, isRefreshing, refreshSubscribers, now, pathname, href,
                 issued, signals>>

\* variant: the header is attached only when an expiry is stored
AttachStoredTokenIfExpiryKnown(q) ==
  Dispatch([q EXCEPT !.auth = IF getTokenExpiry # 0 THEN getAccessToken ELSE @])

\* request interceptor, lines 111-113: the stored token becomes the header
AttachStoredToken(q) ==
  Dispatch([q EXCEPT !.auth = getAccessToken])

\* request interceptor up to its first await or its return
RequestInterceptor(r) ==
  /\ UNCHANGED engine
  /\ req[r].pc = "interceptor"
  /\ req[r].issues = 1 => \A q \in Reqs : q < r => req[q].pc # "interceptor"
  /\ IF getAccessToken # NoToken
       THEN IF ProactiveRefreshWarranted
              THEN /\ isRefreshing' = TRUE
                   /\ req' = [req EXCEPT ![r].pc = "refreshPre",
                                         ![r].rcall = refreshTokenCall]
                   /\ UNCHANGED refreshSubscribers
            ELSE IF isRefreshing
              THEN /\ refreshSubscribers' = subscribeTokenRefresh(r, "pre")
                   /\ req' = [req EXCEPT ![r].pc = "waitPre"]
                   /\ UNCHANGED isRefreshing
            ELSE /\ req' = [req EXCEPT ![r] = AttachStoredToken(@)]
                 /\ UNCHANGED <<isRefreshing, refreshSubscribers>>
       ELSE /\ req' = [req EXCEPT ![r] = Dispatch(@)]
            /\ UNCHANGED <<isRefreshing, refreshSubscribers>>
  /\ UNCHANGED <<storage, now, pathname, href, issued, signals>>

\* variant: _retry is not consulted
ShouldHandle401IgnoringRetry(q, resp) == resp.status = UNAUTHORIZED

\* variant: 403 is handled like 401
ShouldHandle401Or403(q, resp) == resp.status \in {UNAUTHORIZED, 403} /\ ~q.retry

\* variant: 5xx is handled like 401
ShouldHandle401Or5xx(q, resp) == (resp.status = UNAUTHORIZED \/ resp.status >= 500) /\ ~q.retry

\* response interceptor, line 132
ShouldHandle401(q, resp) == resp.status = UNAUTHORIZED /\ ~q.retry

\* the AxiosError the response interceptor's error handler receives for a
\* transport outcome
AxiosError(resp) ==
  IF resp.status # 0
    THEN [BlankError EXCEPT !.response = TRUE, !.status = resp.status,
                            !.code = resp.code, !.message = <<"Request", "failed">>,
                            !.request = TRUE]
  ELSE [BlankError EXCEPT !.code = resp.code, !.request = TRUE,
                          !.message = IF resp.code = "ERR_NETWORK"
                                        THEN <<"Network Error">>
                                      ELSE <<"timeout", "of", "30000ms", "exceeded">>]

\* the transport answers a dispatched request: response interceptor
TransportResponds(r, resp) ==
  /\ UNCHANGED engine
  /\ req[r].pc = "inflight"
  /\ ~MicrotaskPending
  /\ IF resp.status = 200
       THEN /\ req' = [req EXCEPT ![r].pc = "resolved"]
            /\ UNCHANGED <<isRefreshing, refreshSubscribers>>
     ELSE IF ShouldHandle401(req[r], resp)
       THEN IF JoinOngoingRefresh
              THEN /\ refreshSubscribers' = subscribeTokenRefresh(r, "retry")
                   /\ req' = [req EXCEPT ![r].pc = "waitRetry", ![r].retry = TRUE,
                                         ![r].error = parseApiError(AxiosError(resp)).statusCode]
                   /\ UNCHANGED isRefreshing
            ELSE /\ isRefreshing' = TRUE
                 /\ req' = [req EXCEPT ![r].pc = "refreshResp", ![r].retry = TRUE,
                                       ![r].rcall = refreshTokenCall,
                                       ![r].error = parseApiError(AxiosError(resp)).statusCode]
                 /\ UNCHANGED refreshSubscribers
     ELSE /\ req' = [req EXCEPT ![r].pc = "rejected", ![r].error = parseApiError(AxiosError(resp)).statusCode]
          /\ UNCHANGED <<isRefreshing, refreshSubscribers>>
  /\ UNCHANGED <<storage, now, pathname, href, issued, signals>>

\* bodies the refresh endpoint may answer with an accessToken
RefreshData ==
  { [accessToken |-> [id |-> issued + 1, exp |-> e], refreshToken |-> rt, user |-> u] :
      e \in {0} \cup {now \div 1000 + l : l \in Lifetimes},
      rt \in {0, issued + 1}, u \in {0, 1} }

\* variant: the proactive branch attaches the token read before the refresh
AfterRefreshSuccessOldToken(q, token) ==
  IF q.pc = "refreshPre"
    THEN Dispatch([q EXCEPT !.auth = getAccessToken, !.rcall = "none"])
    ELSE [q EXCEPT !.auth = token, !.rcall = "none", !.pc = "interceptor",
                   !.issues = @ + 1, !.error = -1]

\* what the interceptor does with the request once the refresh gave a token
AfterRefreshSuccess(q, token) ==
  IF q.pc = "refreshPre"
    THEN Dispatch([q EXCEPT !.auth = token, !.rcall = "none"])
    ELSE [q EXCEPT !.auth = token, !.rcall = "none", !.pc = "interceptor",
                   !.issues = @ + 1, !.error = -1]

\* the exchange answers with an accessToken: refreshToken() stores it and the
\* awaiting interceptor resumes (lines 55-57, 90-92 / 150-153, finally)
RefreshSucceeds(r, data) ==
  /\ UNCHANGED engine
  /\ r \in OutstandingExchanges
  /\ ~MicrotaskPending
  /\ issued < MaxIssued
  /\ storage' = storeAuthData(storage, data)
  /\ req' = [onTokenRefreshed(req, data.accessToken) EXCEPT
               ![r] = AfterRefreshSuccess(req[r], data.accessToken)]
  /\ refreshSubscribers' = <<>>
  /\ isRefreshing' = FALSE
  /\ issued' = issued + 1
  /\ signals' = 0
  /\ UNCHANGED <<now, pathname, href>>

\* variant: the 401'd request is re-issued although the refresh gave null
AfterRefreshFailureRetrying(q) ==
  IF q.pc = "refreshPre"
    THEN Dispatch([q EXCEPT !.rcall = "none"])
    ELSE [q EXCEPT !.rcall = "none", !.pc = "interceptor", !.issues = @ + 1,
                   !.error = -1]

\* what the interceptor does with the request once refreshToken() gave null
AfterRefreshFailure(q) ==
  IF q.pc = "refreshPre"
    THEN Dispatch([q EXCEPT !.rcall = "none"])
    ELSE [q EXCEPT !.rcall = "none", !.pc = "rejected"]

\* the subscriber list after a refresh that gave null
SubscribersAfterFailure == refreshSubscribers

\* the ways an exchange ends in refreshToken() giving null
FailureKinds == {"error", "noAccessToken"}

\* variant: refreshToken() clears the store itself when the exchange fails
StorageAfterFailedExchangeCleared == ClearedStorage

\* refreshToken(), lines 60-64: the store is not touched
StorageAfterFailedExchange == storage

\* the exchange fails, or answers without an accessToken: refreshToken()
\* returns null and the awaiting interceptor's continuation is queued
ExchangeFails(r, kind) ==
  /\ UNCHANGED engine
  /\ r \in OutstandingExchanges
  /\ kind \in FailureKinds
  /\ ~MicrotaskPending
  /\ storage' = StorageAfterFailedExchange
  /\ req' = [req EXCEPT ![r].rcall = "null"]
  /\ UNCHANGED <<isRefreshing, refreshSubscribers, now, pathname, href, issued,
                 signals>>

\* variant: the flag is cleared only after a successful refresh
isRefreshingAfterFailureKept == TRUE

\* finally { isRefreshing = false }, lines 100-102 and 161-163
isRefreshingAfterFailure == FALSE

\* refreshToken() gave null, after a failed exchange or because no refresh
\* token is stored: redirectToLogin(window.location.pathname), finally
RefreshFails(r) ==
  /\ UNCHANGED engine
  /\ r \in Owners
  /\ req[r].rcall = "null"
  /\ ~InterceptorPending
  /\ storage' = ClearedStorage
  /\ href' = LoginUrl(pathname)
  /\ signals' = signals + 1
  /\ req' = [req EXCEPT ![r] = AfterRefreshFailure(@)]
  /\ refreshSubscribers' = SubscribersAfterFailure
  /\ isRefreshing' = isRefreshingAfterFailure
  /\ UNCHANGED <<now, pathname, issued>>

\* ------------------------------------------------------ AuthContext.tsx

\* verifyToken's catch, lines 98-106: the branch taken for the caught error
verifyTokenCatch(error) ==
  IF error.status = UNAUTHORIZED THEN "tryRefreshToken" ELSE "clearAuthData"

\* login(): the token, the refresh token if any and the user are written to
\* localStorage, then http.setAuthToken(accessToken) writes the token again
Login(rt) ==
  /\ UNCHANGED engine
  /\ ~MicrotaskPending
  /\ issued < MaxIssued
  /\ storage' = [storage EXCEPT
                   !.auth_token = [id |-> issued + 1, exp |-> now \div 1000 + 600],
                   !.refresh_token = IF rt THEN issued + 1 ELSE @,
                   !.user_data = 1]
  /\ issued' = issued + 1
  /\ signals' = 0
  /\ UNCHANGED <<isRefreshing, refreshSubscribers, req, now, pathname, href>>

\* http.removeAuthToken(): clearAuthData()
Logout ==
  /\ UNCHANGED engine
  /\ ~MicrotaskPending
  /\ storage # ClearedStorage
  /\ storage' = ClearedStorage
  /\ UNCHANGED <<isRefreshing, refreshSubscribers, req, now, pathname, href,
                 issued, signals>>

\* ------------------------------------------------------------ environment

Tick ==
  /\ UNCHANGED engine
  /\ ~MicrotaskPending
  /\ now < MaxTick * TickMs
  /\ now' = now + TickMs
  /\ UNCHANGED <<storage, isRefreshing, refreshSubscribers, req, pathname, href,
                 issued, signals>>

Navigate(p) ==
  /\ UNCHANGED engine
  /\ ~MicrotaskPending
  /\ p # pathname
  /\ pathname' = p
  /\ UNCHANGED <<storage, isRefreshing, refreshSubscribers, req, now, href,
                 issued, signals>>

\* ---------------------------------------------- callers of the error handler

Langs == {"vi", "en"}

\* no error handler function has been applied
NotApplied == [fn |-> "none"]

\* a caller applies formatError(raw, lang)
FormatError(lang) ==
  /\ out' = [fn |-> "formatError", lang |-> lang, result |-> formatError(raw, lang)]
  /\ UNCHANGED raw
  /\ UNCHANGED pipeline

\* a caller applies getErrorCategory(raw)
GetErrorCategory ==
  /\ out' = [fn |-> "getErrorCategory", result |-> getErrorCategory(raw)]
  /\ UNCHANGED raw
  /\ UNCHANGED pipeline

\* a caller applies getErrorType(raw)
GetErrorType ==
  /\ out' = [fn |-> "getErrorType", result |-> getErrorType(raw)]
  /\ UNCHANGED raw
  /\ UNCHANGED pipeline

\* a caller applies getApiErrorMessage(raw, lang)
GetApiErrorMessage(lang) ==
  /\ out' = [fn |-> "getApiErrorMessage", lang |-> lang,
             result |-> getApiErrorMessage(raw, lang)]
  /\ UNCHANGED raw
  /\ UNCHANGED pipeline

\* a caller applies parseApiError(raw)
ParseApiError ==
  /\ out' = [fn |-> "parseApiError", result |-> parseApiError(raw)]
  /\ UNCHANGED raw
  /\ UNCHANGED pipeline

\* localStorage as earlier page loads can have left it: empty, after a login
\* (no expiry is written by login), after a refresh (storeAuthData)
\* loadTokens found a token and a user and getCurrentUser() failed on raw:
\* verifyToken catches what the response interceptor rejected with
\* (http.ts:167) and runs clearAuthData, or tryRefreshToken up to its await
VerifyToken ==
  /\ getAccessToken # NoToken
  /\ storage.user_data # 0
  /\ raw.kind = "object"
  /\ raw.request
  /\ LET branch == verifyTokenCatch(parseApiError(raw))
     IN /\ out' = [fn |-> "verifyToken", result |-> branch]
        /\ storage' = IF branch = "clearAuthData" \/ getRefreshToken = 0
                         THEN ClearedStorage
                       ELSE storage
  /\ UNCHANGED raw
  /\ UNCHANGED <<isRefreshing, refreshSubscribers, req, now, pathname, href,
                 issued, signals>>

InitStores ==
  { ClearedStorage,
    [auth_token |-> [id |-> 1, exp |-> 600], refresh_token |-> 1,
     token_expiry |-> 0, user_data |-> 1],
    [auth_token |-> [id |-> 1, exp |-> 600], refresh_token |-> 1,
     token_expiry |-> 600000, user_data |-> 1] }

Init ==
  /\ storage \in InitStores
  /\ isRefreshing = FALSE
  /\ refreshSubscribers = <<>>
  /\ req = [r \in Reqs |-> NewRequest]
  /\ now = 0
  /\ pathname = <<"/", "a">>
  /\ href = <<>>
  /\ issued = IF storage = ClearedStorage THEN 0 ELSE 1
  /\ signals = 0
  /\ raw = BlankError
  /\ out = NotApplied

Next ==
  \/ \E r \in Reqs : Send(r)
  \/ \E r \in Reqs : RequestInterceptor(r)
  \/ \E r \in Reqs, resp \in Responses : TransportResponds(r, resp)
  \/ \E r \in Reqs, data \in RefreshData : RefreshSucceeds(r, data)
  \/ \E r \in Reqs, kind \in FailureKinds : ExchangeFails(r, kind)
  \/ \E r \in Reqs : RefreshFails(r)
  \/ \E rt \in BOOLEAN : Login(rt)
  \/ Logout
  \/ Tick
  \/ \E p \in Paths : Navigate(p)

Spec == Init /\ [][Next]_vars

\* The event loop runs every queued continuation, and the transport answers
\* every request it was given and every refresh exchange.
Fairness ==
  /\ WF_vars(\E r \in Reqs : RequestInterceptor(r))
  /\ WF_vars(\E r \in Reqs : RefreshFails(r))
  /\ \A r \in Reqs :
       /\ WF_vars(\E resp \in Responses : TransportResponds(r, resp))
       /\ WF_vars(\/ \E data \in RefreshData : RefreshSucceeds(r, data)
                  \/ \E kind \in FailureKinds : ExchangeFails(r, kind))

LiveSpec == Init /\ [][Next]_vars /\ Fairness

\* the error handler applied to one raw error, the pipeline idle
ClassifyInit ==
  /\ storage \in InitStores
  /\ isRefreshing = FALSE
  /\ refreshSubscribers = <<>>
  /\ req = [r \in Reqs |-> NewRequest]
  /\ now = 0
  /\ pathname = <<"/", "a">>
  /\ href = <<>>
  /\ issued = IF storage = ClearedStorage THEN 0 ELSE 1
  /\ signals = 0
  /\ raw \in RawErrors
  /\ out = NotApplied

ClassifyNext ==
  \/ \E lang \in Langs : FormatError(lang)
  \/ GetErrorCategory
  \/ GetErrorType
  \/ \E lang \in Langs : GetApiErrorMessage(lang)
  \/ ParseApiError
  \/ VerifyToken

ClassifySpec == ClassifyInit /\ [][ClassifyNext]_vars


\* ------------------------------------------------------------ properties

WaitingPcs == {"waitPre", "waitRetry"}

\* the step is a run of redirectToLogin
RedirectStep == signals' = signals + 1

\* the step settles the refreshToken() call of r with null
RefreshGaveNull(r) ==
  /\ req[r].pc \in RefreshPcs
  /\ req'[r].pc \notin RefreshPcs
  /\ issued' = issued

\* the step settles the refreshToken() call of r with a token
RefreshGaveToken(r) ==
  /\ req[r].pc \in RefreshPcs
  /\ req'[r].pc \notin RefreshPcs
  /\ issued' = issued + 1

\* the step is the request interceptor of r running
InterceptorStep(r) ==
  req[r].pc = "interceptor" /\ req'[r].pc # "interceptor"

\* the step is the response interceptor of r handling a transport outcome
ResponseStep(r) ==
  req[r].pc = "inflight" /\ req'[r].pc # "inflight"

\* C1: single-flight.  In every state at most one refreshToken() call, hence
\* at most one exchange, is outstanding, and isRefreshing is set exactly while
\* there is one.  A request whose interceptor runs with a stored token that is
\* expiring soon, or while a refresh is in flight, leaves exactly one refresh
\* outstanding: it starts one (an exchange, given a stored refresh token) only
\* if none was in flight, and otherwise joins the one in flight.  An exchange
\* starts only when no refresh is outstanding.
C1_SingleFlight ==
  /\ [](Cardinality(Owners) <= 1 /\ (isRefreshing <=> Owners # {}))
  /\ [][ /\ \A r \in Reqs :
              (InterceptorStep(r) /\ getAccessToken # NoToken
                 /\ (isTokenExpiringSoon \/ isRefreshing))
              => /\ Cardinality(Owners') = 1
                 /\ isRefreshing => (Owners' = Owners /\ req'[r].pc = "waitPre")
                 /\ ~isRefreshing => /\ Owners' = {r}
                                      /\ getRefreshToken # 0 => OutstandingExchanges' = {r}
         /\ OutstandingExchanges' \ OutstandingExchanges # {}
              => (Owners = {} /\ Cardinality(OutstandingExchanges') = 1) ]_vars

\* C1 witness: an exchange is outstanding and a second request waits on it
C1_Witness ==
  /\ Cardinality(OutstandingExchanges) = 1
  /\ isRefreshing
  /\ \E r \in Reqs : req[r].pc = "waitPre" /\ Len(refreshSubscribers) >= 1

\* C2: a request is issued at most twice and reaches the transport at most
\* twice; a second issue happens only with _retry set; a 401 answering a
\* retried request rejects it, starts no refresh and subscribes nothing.
C2_AtMostOneRetry ==
  /\ [](\A r \in Reqs : /\ req[r].sends <= 2
                        /\ req[r].issues <= 2
                        /\ req[r].issues = 2 => req[r].retry)
  /\ [][ \A r \in Reqs :
           (ResponseStep(r) /\ req[r].retry /\ req'[r].error = UNAUTHORIZED)
           => /\ req'[r].pc = "rejected"
              /\ req'[r].issues = req[r].issues
              /\ UNCHANGED <<isRefreshing, refreshSubscribers>>
              /\ Owners' = Owners ]_vars

\* C2 witness: a request was retried and its second attempt got 401 too
C2_Witness ==
  \E r \in Reqs : /\ req[r].pc = "rejected"
                  /\ req[r].retry
                  /\ req[r].sends = 2
                  /\ req[r].error = UNAUTHORIZED

\* C3 (as claimed): when a refresh gives null, every request waiting on it is
\* rejected in that step.
C3_WaitersRejectedOnFailure ==
  [][ \A r \in Reqs :
        RefreshGaveNull(r)
        => \A w \in Reqs : req[w].pc \in WaitingPcs => req'[w].pc = "rejected" ]_vars

\* C4 (as claimed): every request released by a successful refresh reaches
\* the transport carrying the token of that refresh.
C4_WaitersCarryNewToken ==
  [][ \A w \in Reqs :
        /\ (req[w].pc = "waitPre" /\ req'[w].pc # "waitPre")
             => (req'[w].pc = "inflight" /\ req'[w].sent = storage'.auth_token)
        /\ (req[w].rel # NoToken /\ req'[w].sends = req[w].sends + 1)
             => req'[w].sent = req[w].rel ]_vars

\* C4 (amended): the step in which a refresh gives a token empties the
\* subscriber list and clears the flag; in that step every request that
\* waited before its send reaches the transport carrying the new token, and
\* every 401'd request that waited is issued again with the new token as its
\* header (its request interceptor then runs again).
C4_WaitersReleasedWithNewToken ==
  [][ \A r \in Reqs :
        RefreshGaveToken(r)
        => /\ refreshSubscribers' = <<>>
           /\ ~isRefreshing'
           /\ \A w \in Waiting("pre") :
                 /\ req'[w].pc = "inflight"
                 /\ req'[w].sends = req[w].sends + 1
                 /\ req'[w].sent = storage'.auth_token
                 /\ req'[w].sent # storage.auth_token
           /\ \A w \in Waiting("retry") :
                 /\ req'[w].pc = "interceptor"
                 /\ req'[w].issues = req[w].issues + 1
                 /\ req'[w].auth = storage'.auth_token ]_vars

\* C4 witness: a 401'd request that waited was released with the token now
\* stored, another request is on the transport with that token, and the
\* subscriber list is empty
C4_Witness ==
  /\ refreshSubscribers = <<>>
  /\ ~isRefreshing
  /\ \E w \in Reqs : /\ req[w].rel # NoToken
                      /\ req[w].rel = getAccessToken
                      /\ req[w].pc = "interceptor"
  /\ \E o \in Reqs : req[o].pc = "inflight" /\ req[o].sent = getAccessToken

\* C5 (as claimed): the subscriber list is non-empty only while a refresh is
\* in progress.
C5_WaitersOnlyWhileRefreshing ==
  refreshSubscribers # <<>> => isRefreshing

\* C6 (as claimed): redirectToLogin runs once for a refresh failure; it does
\* not run again before credentials are stored again.
C6_OneSessionEndedSignal ==
  signals <= 1

\* C7 (as claimed): a 401 answering a retried request clears the credentials
\* and navigates to login with the current path.
C7_Retried401EndsSession ==
  [][ \A r \in Reqs :
        (ResponseStep(r) /\ req[r].retry /\ req'[r].error = UNAUTHORIZED)
        => /\ storage' = ClearedStorage
           /\ RedirectStep
           /\ href' = LoginUrl(pathname) ]_vars

\* C8: when the refresh started by a first 401 gives null, the credentials
\* are cleared, login is navigated to with the current path as return URL,
\* and the request is rejected with the 401 error without being issued again.
C8_ReactiveRefreshFailure ==
  [][ \A r \in Reqs :
        (req[r].pc = "refreshResp" /\ RefreshGaveNull(r))
        => /\ storage' = ClearedStorage
           /\ RedirectStep
           /\ href' = <<"/auth/login?returnUrl=">> \o encodeURIComponent(pathname)
           /\ req'[r].pc = "rejected"
           /\ req'[r].error = UNAUTHORIZED
           /\ req'[r].issues = req[r].issues
           /\ req'[r].sends = req[r].sends
           /\ ~isRefreshing' ]_vars

\* C8 witness: a request got 401, its refresh gave null, it was rejected
\* after one send and the login URL carries the path
C8_Witness ==
  \E r \in Reqs : /\ req[r].pc = "rejected"
                  /\ req[r].retry
                  /\ req[r].sends = 1
                  /\ req[r].error = UNAUTHORIZED
                  /\ storage = ClearedStorage
                  /\ href = <<"/auth/login?returnUrl=", "%2F", "a">>

\* C9 (as claimed): login is navigated to only after some request has
\* observed a 401.
C9_RedirectOnlyAfter401 ==
  href # <<>> => \E r \in Reqs : req[r].retry

\* C9 (amended): redirectToLogin runs only in the step in which a refresh
\* gives null; if that refresh was started by a response, the response was a
\* 401 on a request not yet retried.  No other response triggers it.
C9_RedirectOnlyOnRefreshFailure ==
  [][ (RedirectStep \/ href' # href)
      => \E r \in Reqs :
           /\ RefreshGaveNull(r)
           /\ req[r].pc = "refreshResp"
                => (req[r].error = UNAUTHORIZED /\ req[r].sends = 1)
           /\ \A q \in Reqs : ~ResponseStep(q) ]_vars

\* C9 witness: login was navigated to although no request has seen a 401
C9_Witness ==
  /\ href # <<>>
  /\ \A r \in Reqs : ~req[r].retry
  /\ \E r \in Reqs : req[r].sends = 1

\* C10: a failure other than 401 rejects the request in the same step; the
\* request is not issued again, no refresh starts, and the credentials, the
\* flag and the subscriber list are unchanged.
C10_Non401NoRetryNoRefresh ==
  [][ \A r \in Reqs :
        (ResponseStep(r) /\ req'[r].error \notin {-1, UNAUTHORIZED})
        => /\ req'[r].pc = "rejected"
           /\ req'[r].issues = req[r].issues
           /\ req'[r].sends = req[r].sends
           /\ Owners' = Owners
           /\ UNCHANGED <<storage, isRefreshing, refreshSubscribers, signals, href>> ]_vars

\* C10 witness: requests were rejected on no response and on a 5xx while a
\* token is stored
C10_Witness ==
  /\ getAccessToken # NoToken
  /\ \E r \in Reqs : req[r].pc = "rejected" /\ req[r].error = 0 /\ req[r].sends = 1
  /\ \E r \in Reqs : req[r].pc = "rejected" /\ req[r].error = 500 /\ req[r].sends = 1

\* the category and type a caller finds on a returned error: the property if
\* the error carries one, else what the error handler assigns to it
CategoryOf(e) == IF "category" \in DOMAIN e THEN e.category ELSE getErrorCategory(e)
TypeOf(e) == IF "type" \in DOMAIN e THEN e.type ELSE getErrorType(e)

\* C11 (as claimed): every failure the response interceptor rejects with
\* carries the category and the type the error handler assigns to the raw
\* failure.
C11_RejectionsAreClassified ==
  [][ \A r \in Reqs, resp \in Responses :
        (TransportResponds(r, resp) /\ req'[r].pc = "rejected")
        => /\ req'[r].error = parseApiError(AxiosError(resp)).statusCode
           /\ CategoryOf(parseApiError(AxiosError(resp)))
                = getErrorCategory(AxiosError(resp))
           /\ TypeOf(parseApiError(AxiosError(resp)))
                = getErrorType(AxiosError(resp)) ]_vars

\* C12: a request whose interceptor finds a stored token expiring soon and no
\* refresh in flight is held back while it refreshes; it reaches the
\* transport only in the step that settles that refresh, with no exchange
\* left outstanding, and when the refresh gave a token it is dispatched in
\* that step carrying the newly issued token, never the one stored before.
C12_ProactiveRefreshBeforeDispatch ==
  [][ \A r \in Reqs :
        /\ (InterceptorStep(r) /\ getAccessToken # NoToken
              /\ isTokenExpiringSoon /\ ~isRefreshing)
           => /\ req'[r].pc = "refreshPre"
              /\ req'[r].sends = req[r].sends
              /\ isRefreshing'
        /\ (req[r].pc = "refreshPre" /\ req'[r].sends # req[r].sends)
           => /\ RefreshGaveToken(r) \/ RefreshGaveNull(r)
              /\ OutstandingExchanges' = {}
        /\ (req[r].pc = "refreshPre" /\ RefreshGaveToken(r))
           => /\ req'[r].pc = "inflight"
              /\ req'[r].sends = req[r].sends + 1
              /\ req'[r].sent = storage'.auth_token
              /\ req'[r].sent.id = issued'
              /\ req'[r].sent # storage.auth_token ]_vars

\* C12 witness: the first request, never answered 401, is on the transport
\* with the token a refresh stored after the initial one came within the
\* threshold, while no other request has been issued
C12_Witness ==
  /\ now = TickMs
  /\ req[1].pc = "inflight" /\ ~req[1].retry /\ req[1].sends = 1
  /\ req[1].sent = getAccessToken /\ req[1].sent.id = 2
  /\ getTokenExpiry = 900000
  /\ \A r \in Reqs \ {1} : req[r].pc = "idle"

\* C13: when the request interceptor runs with no refresh in flight and
\* either no stored token or a stored token that is not expiring soon, it
\* starts no refresh and subscribes nothing, and the request reaches the
\* transport in that step carrying exactly the stored access token, or no
\* bearer at all when none is stored.
C13_NoRefreshWhenNotWarranted ==
  [][ \A r \in Reqs :
        (InterceptorStep(r) /\ ~isRefreshing
           /\ (getAccessToken = NoToken \/ ~isTokenExpiringSoon))
        => /\ req'[r].pc = "inflight"
           /\ req'[r].sends = req[r].sends + 1
           /\ req'[r].sent = storage.auth_token
           /\ Owners' = {} /\ OutstandingExchanges' = {}
           /\ UNCHANGED <<isRefreshing, refreshSubscribers, storage>> ]_vars

\* C13 witness: with no refresh ever started, one request is on the transport
\* carrying the stored token and another was sent with no bearer after the
\* credentials were removed
C13_Witness ==
  /\ issued = 1 /\ ~isRefreshing /\ getAccessToken = NoToken
  /\ req[1].pc = "inflight" /\ req[1].sent.id = 1 /\ ~req[1].retry
  /\ req[2].pc = "inflight" /\ req[2].sent = NoToken /\ ~req[2].retry

C15_Order ==
  << "auth", "permission", "validation", "notfound", "conflict", "server",
     "network", "timeout", "business", "unknown" >>

C15_Matches(e, c) ==
  CASE c = "auth" -> e.response /\ e.status = 401
    [] c = "permission" -> e.response /\ e.status = 403
    [] c = "validation" -> e.response /\ (e.status = 422 \/ e.dataErrors)
    [] c = "notfound" -> e.response /\ e.status = 404
    [] c = "conflict" -> e.response /\ e.status = 409
    [] c = "server" -> e.response /\ e.status >= 500
    [] c = "network" -> \/ ~e.response
                        \/ e.code = "ERR_NETWORK"
                        \/ Includes(e.message, "Network Error")
    [] c = "timeout" -> e.code = "ECONNABORTED" \/ Includes(e.message, "timeout")
    [] c = "business" -> e.response /\ e.dataMessage # <<>>
    [] OTHER -> TRUE

C15_FirstMatch(e) ==
  C15_Order[CHOOSE i \in 1..Len(C15_Order) :
              /\ C15_Matches(e, C15_Order[i])
              /\ \A j \in 1..(i - 1) : ~C15_Matches(e, C15_Order[j])]

\* C15: the category returned by getErrorCategory, and the one formatError
\* reports, is the first of auth, permission, validation, notfound, conflict,
\* server, network, timeout, business, unknown whose test the error passes
\* (network: no response, or the transport's network-error code or message).
C15_FirstMatchWins ==
  /\ out.fn = "getErrorCategory" => out.result = C15_FirstMatch(raw)
  /\ out.fn = "formatError" => out.result.category = C15_FirstMatch(raw)

\* C15 witness: a 422 response with a server message and no errors map was
\* classified validation
C15_Witness ==
  /\ out.fn = "getErrorCategory"
  /\ raw.response /\ raw.status = 422
  /\ raw.dataMessage # <<>> /\ ~raw.dataErrors
  /\ out.result = "validation"

\* C16 (as claimed): an error object without a response that carries the
\* timeout signal (code ECONNABORTED or a 'timeout' message) is given the
\* category timeout.
C16_TimeoutIsTimeout ==
  (/\ out.fn \in {"getErrorCategory", "formatError"}
   /\ raw.kind = "object" /\ ~raw.response
   /\ (raw.code = "ECONNABORTED" \/ Includes(raw.message, "timeout")))
  => IF out.fn = "formatError" THEN out.result.category = "timeout"
     ELSE out.result = "timeout"

\* the type C17 derives from a category and the presence of a server message
C17_TypeFor(category, hasServerMessage) ==
  IF category \in {"network", "timeout", "server"} THEN "retryable"
  ELSE IF category \in {"auth", "permission", "validation", "notfound", "conflict"}
    THEN "non-retryable"
  ELSE IF hasServerMessage THEN "business"
  ELSE "system"

\* C17: the type getErrorType returns, and the one formatError reports next
\* to its category, is retryable for network, timeout and server,
\* non-retryable for auth, permission, validation, notfound and conflict, and
\* otherwise business with a server message and system without; the type is
\* business exactly when the category is business and system exactly when
\* the category is unknown.
C17_TypeFollowsCategory ==
  /\ out.fn = "getErrorType"
       => out.result = C17_TypeFor(C15_FirstMatch(raw),
                                   raw.response /\ raw.dataMessage # <<>>)
  /\ out.fn = "formatError"
       => /\ out.result.type
               = C17_TypeFor(out.result.category,
                             raw.response /\ raw.dataMessage # <<>>)
          /\ out.result.type = "business" <=> out.result.category = "business"
          /\ out.result.type = "system" <=> out.result.category = "unknown"
          /\ out.result.isRetryable
               <=> out.result.category \in {"network", "timeout", "server"}

\* C17 witness: formatError reported category business with type business
C17_Witness ==
  /\ out.fn = "formatError"
  /\ out.result.category = "business"
  /\ out.result.type = "business"
  /\ raw.response /\ raw.dataMessage # <<>>

\* the failures C18 calls network and timeout failures: the transport's
\* signal, or a request that got no response
C18_NetworkFailure(e) ==
  \/ e.code = "ERR_NETWORK"
  \/ Includes(e.message, "Network Error")
  \/ e.request /\ ~e.response

C18_TimeoutFailure(e) ==
  e.code = "ECONNABORTED" \/ Includes(e.message, "timeout")

C18_Resolves(e, m) ==
  IF e.response /\ e.dataMessage # <<>>
    THEN m.src = "server" /\ m.text = e.dataMessage
  ELSE IF e.response /\ e.status \in CatalogStatuses
    THEN m.src = "catalog" /\ m.status = e.status
  ELSE IF C18_NetworkFailure(e) \/ C18_TimeoutFailure(e)
    THEN /\ m.src = "catalog"
         /\ m.key \in {"network", "timeout"}
         /\ m.key = "network" => C18_NetworkFailure(e)
         /\ m.key = "timeout" => C18_TimeoutFailure(e)
  ELSE \/ m.src = "catalog" /\ m.key = "unknown"
       \/ m.src = "error" /\ m.text = e.message /\ m.text # <<>>

\* C18 (as claimed): for an error object the message is the server message if
\* the response has one, else the catalog entry of the response status if it
\* has one, else the network or timeout entry if the error is a network or
\* timeout failure, and only otherwise a generic message (the error's own
\* message or the catalog's fallback).
C18_MessageResolution ==
  /\ (out.fn = "getApiErrorMessage" /\ raw.kind = "object")
       => C18_Resolves(raw, out.result)
  /\ (out.fn = "formatError" /\ raw.kind = "object")
       => C18_Resolves(raw, out.result.message)

\* C19 (as claimed): whatever the input, formatError, getErrorCategory and
\* parseApiError return a value: parseApiError an AppError, the others a
\* category among the ten.
C19_NeverThrows ==
  /\ out.fn = "parseApiError" => out.result.kind = "AppError"
  /\ out.fn = "getErrorCategory"
       => \E i \in 1..Len(C15_Order) : out.result = C15_Order[i]
  /\ out.fn = "formatError"
       => \E i \in 1..Len(C15_Order) : out.result.category = C15_Order[i]

\* C20: isTokenExpiringSoon() is true exactly when an expiry is stored and
\* now >= expiry - 5 minutes (REFRESH_THRESHOLD), isTokenExpired() exactly
\* when an expiry is stored and now >= expiry, so with no stored expiry both
\* are false.  With no stored expiry the request interceptor never starts a
\* refresh: it sends the request on (with the stored token, when there is no
\* refresh to join), and a refresh begins only in the response interceptor's
\* handling of a 401.
C20_ExpiryPredicates ==
  /\ [](/\ isTokenExpiringSoon
             <=> (storage.token_expiry # 0
                    /\ now >= storage.token_expiry - REFRESH_THRESHOLD)
        /\ isTokenExpired
             <=> (storage.token_expiry # 0 /\ now >= storage.token_expiry)
        /\ storage.token_expiry = 0 => ~isTokenExpiringSoon /\ ~isTokenExpired)
  /\ [][ /\ \A r \in Reqs :
              (InterceptorStep(r) /\ storage.token_expiry = 0)
              => /\ Owners' = Owners
                 /\ ~isRefreshing => /\ req'[r].pc = "inflight"
                                      /\ req'[r].auth = storage.auth_token
         /\ \A r \in Reqs :
              (InterceptorStep(r) /\ storage.auth_token # NoToken /\ ~isRefreshing)
              => (r \in Owners'
                    <=> (storage.token_expiry # 0
                           /\ now >= storage.token_expiry - REFRESH_THRESHOLD))
         /\ (storage.token_expiry = 0 /\ Owners' \ Owners # {})
              => \E r \in Reqs : /\ ResponseStep(r)
                                 /\ Owners' \ Owners = {r} ]_vars

\* a proactive refresh started at the threshold instant itself
C20_Witness ==
  /\ storage.token_expiry # 0
  /\ now = storage.token_expiry - REFRESH_THRESHOLD
  /\ \E r \in Reqs : req[r].pc = "refreshPre"

\* C21 (as claimed): in every reachable state a stored expiry is the expiry
\* claim decoded from the access token that is stored: never the expiry of a
\* previous token, never an expiry without a token.
C21_ExpiryOfStoredToken ==
  storage.token_expiry # 0
    => /\ storage.auth_token # NoToken
       /\ storage.token_expiry = getTokenExpiryFromJwt(storage.auth_token)

\* C22 (as claimed): storeAuthData(c) is a full replacement.  After it the
\* stored access token, refresh token, expiry and user are exactly those of
\* c, the expiry being the one decoded from c's access token; a field absent
\* from c, or an undecodable expiry, is left absent.
C22_StoreReplaces ==
  [][ \A r \in Reqs, data \in RefreshData :
        RefreshSucceeds(r, data)
        => storage' = [ auth_token    |-> data.accessToken,
                        refresh_token |-> data.refreshToken,
                        token_expiry  |-> getTokenExpiryFromJwt(data.accessToken),
                        user_data     |-> data.user ] ]_vars

\* C23 (as claimed): the stored credentials are never written concurrently
\* with a refresh.  While a refresh exchange is in flight, the only step that
\* changes localStorage is the one in which that exchange settles; login,
\* setAuthToken and removeAuthToken do not write meanwhile.
C23_NoWriteDuringExchange ==
  [][ (OutstandingExchanges # {} /\ storage' # storage)
        => \E r \in OutstandingExchanges : r \notin OutstandingExchanges' ]_vars

\* C29: refreshToken() starts an exchange only when a refresh token is
\* stored.  It writes localStorage only when the exchange answers with an
\* accessToken, which it stores and returns; when the exchange fails or
\* answers without one, and when no refresh token is stored, it returns null
\* with localStorage as it was.  On null the awaiting interceptor treats the
\* refresh as failed: redirectToLogin runs, isRefreshing is cleared, and the
\* request is given no token and is not re-issued.
C29_RefreshTokenFrame ==
  [][ \A r \in Reqs :
        /\ (r \in OutstandingExchanges' \ OutstandingExchanges)
             => storage.refresh_token # 0
        /\ (r \in Owners' \ Owners)
             => /\ storage' = storage
                /\ storage.refresh_token = 0 => req'[r].rcall = "null"
        /\ (r \in OutstandingExchanges /\ req'[r].rcall = "null")
             => /\ storage' = storage
                /\ r \in Owners'
                /\ issued' = issued
        /\ (r \in OutstandingExchanges /\ r \notin Owners')
             => /\ issued' = issued + 1
                /\ storage'.auth_token # NoToken
                /\ req'[r].auth = storage'.auth_token
        /\ (r \in Owners /\ req[r].rcall = "null" /\ r \notin Owners')
             => /\ RedirectStep
                /\ ~isRefreshing'
                /\ req'[r].auth = req[r].auth
                /\ req'[r].issues = req[r].issues ]_vars

\* an exchange has failed and refreshToken() has returned null: the refresh
\* token it sent is still stored
C29_Witness ==
  \E r \in Owners : req[r].rcall = "null" /\ storage.refresh_token # 0

\* C26 (as claimed): when a proactive refresh fails, the request whose
\* interceptor started it is not dispatched to the transport, with or
\* without credentials.
C26_FailedProactiveNotDispatched ==
  [][ \A r \in Reqs :
        (req[r].pc = "refreshPre" /\ RefreshGaveNull(r))
        => /\ req'[r].sends = req[r].sends
           /\ req'[r].pc # "inflight" ]_vars

\* C28 (as claimed): once logout has cleared the credentials, no access
\* token is stored again until a login.  An exchange that was in flight at
\* the logout, so that it settles with the store cleared, does not store its
\* token when it succeeds.
C28_NoRestoreAfterLogout ==
  [][ \A r \in Reqs, data \in RefreshData :
        (RefreshSucceeds(r, data) /\ storage = ClearedStorage)
        => storage'.auth_token = NoToken ]_vars

\* the flags of a formatted error that restate its category and its
\* retryable type
C30_CategoryFlagsAgree(f) ==
  /\ f.isAuthError <=> f.category = "auth"
  /\ f.isPermissionError <=> f.category = "permission"
  /\ f.isValidationError <=> f.category = "validation"
  /\ f.isRetryable <=> f.type = "retryable"

\* C30 (as claimed): for every raw error the flags of formatError's result
\* agree with its category and type: isAuthError iff category auth,
\* isPermissionError iff permission, isValidationError iff validation,
\* isRetryable iff type retryable, isBusinessError iff type business, so that
\* isRetryable and isBusinessError are never both true.
C30_FlagsAgreeWithType ==
  out.fn = "formatError"
    => /\ C30_CategoryFlagsAgree(out.result)
       /\ out.result.isBusinessError <=> out.result.type = "business"
       /\ ~(out.result.isRetryable /\ out.result.isBusinessError)

\* C30 (amended): isAuthError, isPermissionError, isValidationError and
\* isRetryable agree with the category and type as claimed; isBusinessError
\* is true exactly when the response carries a server message
\* (response.data.message): it is true whenever the type is business, and
\* also for errors of the other types that carry a server message.
C30_FlagsAgree ==
  out.fn = "formatError"
    => /\ C30_CategoryFlagsAgree(out.result)
       /\ out.result.isBusinessError
            <=> (raw.kind = "object" /\ raw.response /\ raw.dataMessage # <<>>)
       /\ out.result.type = "business" => out.result.isBusinessError

\* a 5xx answer with a server message: retryable and flagged business
C30_Witness ==
  /\ out.fn = "formatError"
  /\ out.result.isRetryable
  /\ out.result.isBusinessError
  /\ out.result.category = "server"

\* C25 (as claimed): when getCurrentUser fails, verifyToken attempts the
\* fallback refresh exactly when the failure is a 401 answer, and clears the
\* auth state directly for every other failure.
C25_VerifyFallsBackOn401 ==
  out.fn = "verifyToken"
    => (out.result = "tryRefreshToken"
          <=> (raw.response /\ raw.status = UNAUTHORIZED))

\* C24: whenever a refresh has started (isRefreshing is set), the flag is
\* eventually cleared with no refreshToken() call outstanding, whether the
\* exchange succeeds, fails, answers without a token, or was never made; a
\* later request can then start a new refresh.
C24_RefreshEventuallyIdle ==
  isRefreshing ~> (~isRefreshing /\ Owners = {})

\* a refresh has failed and the flag is clear again
C24_Witness ==
  /\ ~isRefreshing
  /\ Owners = {}
  /\ signals > 0

\* C27 (as claimed): every request handed to axiosInstance eventually
\* settles, resolved or rejected, given that the transport answers every
\* dispatched request and every refresh exchange; a waiter settles whether
\* the refresh it waits on succeeds or fails.
C27_EverySendSettles ==
  \A r \in Reqs :
    (req[r].pc # "idle") ~> (req[r].pc \in {"resolved", "rejected"})

====
